---- MODULE Spec2Model ----
(***************************************************************************)
(* Model of the guideline loader (src/src/guidelines/loader.ts) and of the *)
(* resource handlers that read the guideline store (src/src/server.ts).    *)
(*                                                                         *)
(* A JavaScript string is modelled as a sequence of one-character strings, *)
(* so that concatenation, whitespace normalisation, splitting at a         *)
(* delimiter and the property order of numeric keys are all computed.      *)
(***************************************************************************)
EXTENDS Integers, Sequences, FiniteSets, TLC

VARIABLES
  guidelines,    \* the exported GuidelinesMap, own properties in creation order
  pc,            \* position of loadGuidelines: "idle", "root", "enum", "child"
  childPageIds,  \* local childPageIds of the running loadGuidelines
  childIdx,      \* position of the for..of loop over childPageIds
  loads,         \* number of loadGuidelines invocations so far
  loadResult,    \* "none", "pending", "resolved", "rejected" (latest invocation)
  log,           \* remote calls settled during the latest invocation, in order
  prevLog,       \* log of the invocation before the latest one
  startStore,    \* guidelines as they were when the latest invocation began
  accepting,     \* the server accepts requests (startServer got past the load)
  response,      \* the latest response of a resource, prompt or tool handler
  exchange,      \* the latest POST /mcp: body received, outcome, body forwarded
  classified,    \* one earlier classification kept for comparison: body, category
  configOk,      \* the four CONFLUENCE_* environment variables are all set
  exitCode,      \* exit status of the process, -1 while it runs
  logged         \* the error messages written to stderr so far

vars == <<guidelines, pc, childPageIds, childIdx, loads, loadResult, log,
          prevLog, startStore, accepting, response, exchange, classified,
          configOk, exitCode, logged>>

\* the state of the request middleware and of the process
mwVars == <<exchange, classified>>
procVars == <<configOk, exitCode>>

(***************************************************************************)
(* Bounds                                                                  *)
(***************************************************************************)
MaxChildren == 2
MaxLoads == 2

(***************************************************************************)
(* Configuration (environment variables read by loader.ts)                 *)
(***************************************************************************)
MAIN_PAGE_ID == <<"2", "0">>
BASE_URL == <<"h">>

(***************************************************************************)
(* The remote: the page ids an enumeration may return and the page         *)
(* contents a fetch may return.                                            *)
(***************************************************************************)
ChildIdPool == {<<"3">>, <<"2", "0">>, <<"x">>}
ReloadIdPool == {<<"3">>, <<"2", "0">>}

PageA == [title |-> <<>>, html |-> <<"<", "p", ">", " ", "a", "\n", " ", "b">>]
PageB == [title |-> <<"T">>, html |-> <<"#", "#", "#", " ", "c">>]
Pages == {PageA, PageB}

(***************************************************************************)
(* String helpers                                                          *)
(***************************************************************************)
IsSpace(c) == c \in {" ", "\n", "\t"}

RECURSIVE DropSpaces(_)
DropSpaces(s) ==
  IF s = <<>> THEN <<>>
  ELSE IF IsSpace(Head(s)) THEN DropSpaces(Tail(s)) ELSE s

\* s.replace(/\s+/g, ' ')
RECURSIVE CollapseSpaces(_)
CollapseSpaces(s) ==
  IF s = <<>> THEN <<>>
  ELSE IF IsSpace(Head(s))
       THEN <<" ">> \o CollapseSpaces(DropSpaces(Tail(s)))
       ELSE <<Head(s)>> \o CollapseSpaces(Tail(s))

RECURSIVE DropTrailingSpaces(_)
DropTrailingSpaces(s) ==
  IF s = <<>> THEN <<>>
  ELSE IF IsSpace(s[Len(s)])
       THEN DropTrailingSpaces(SubSeq(s, 1, Len(s) - 1))
       ELSE s

\* s.trim()
Trim(s) == DropTrailingSpaces(DropSpaces(s))

\* cheerio.load(html).text(): the text outside the tags
RECURSIVE SkipTag(_)
SkipTag(s) ==
  IF s = <<>> THEN <<>>
  ELSE IF Head(s) = ">" THEN Tail(s) ELSE SkipTag(Tail(s))

RECURSIVE CheerioText(_)
CheerioText(html) ==
  IF html = <<>> THEN <<>>
  ELSE IF Head(html) = "<"
       THEN CheerioText(SkipTag(Tail(html)))
       ELSE <<Head(html)>> \o CheerioText(Tail(html))

\* $.text().replace(/\s+/g, ' ').trim()
NormalizedText(html) == Trim(CollapseSpaces(CheerioText(html)))

IsPrefix(p, s) == Len(p) <= Len(s) /\ SubSeq(s, 1, Len(p)) = p

\* s.split(d) for a non-empty delimiter d
RECURSIVE SplitFrom(_, _, _)
SplitFrom(s, d, piece) ==
  IF s = <<>> THEN <<piece>>
  ELSE IF IsPrefix(d, s)
       THEN <<piece>> \o SplitFrom(SubSeq(s, Len(d) + 1, Len(s)), d, <<>>)
       ELSE SplitFrom(Tail(s), d, Append(piece, Head(s)))

Split(s, d) == SplitFrom(s, d, <<>>)

\* parts.join(sep)
RECURSIVE Join(_, _)
Join(parts, sep) ==
  IF parts = <<>> THEN <<>>
  ELSE IF Len(parts) = 1 THEN parts[1]
       ELSE parts[1] \o sep \o Join(Tail(parts), sep)

(***************************************************************************)
(* Guideline records                                                       *)
(***************************************************************************)
PageUrl(pageId) == BASE_URL \o <<"/", "p", "a", "g", "e", "s", "/">> \o pageId

UrlMarker == <<"\n", "U", "R", "L", ":", " ">>

MainFallback == <<"M", "a", "i", "n", " ", "P", "a", "g", "e">>
ChildFallback == <<"C", "h", "i", "l", "d", " ", "P", "a", "g", "e">>

\* a record whose text stops before the link line
MakeGuidelineNoLink(pageId, page, fallback) ==
  [id |-> pageId,
   title |-> IF page.title = <<>>
             THEN fallback \o <<" ", "(">> \o pageId \o <<")">>
             ELSE page.title,
   text |-> NormalizedText(page.html),
   url |-> PageUrl(pageId)]

\* the record loadGuidelines builds from a fetched page
MakeGuideline(pageId, page, fallback) ==
  LET title == IF page.title = <<>>
               THEN fallback \o <<" ", "(">> \o pageId \o <<")">>
               ELSE page.title
      url == PageUrl(pageId)
  IN [id |-> pageId,
      title |-> title,
      text |-> NormalizedText(page.html) \o UrlMarker \o url,
      url |-> url]

(***************************************************************************)
(* The store: a plain JavaScript object                                    *)
(***************************************************************************)
KeySet(store) == {store[i].id : i \in DOMAIN store}

HasKey(store, id) == id \in KeySet(store)

IndexOfKey(store, id) == CHOOSE i \in DOMAIN store : store[i].id = id

GetGuideline(store, id) == store[IndexOfKey(store, id)]

\* store[id] = rec with an array instead of an object: always a new entry
PutAppend(store, id, rec) == Append(store, rec)

\* store[id] = rec that merges into the existing record instead of replacing it
PutMerge(store, id, rec) ==
  IF HasKey(store, id)
  THEN [store EXCEPT ![IndexOfKey(store, id)] =
          [rec EXCEPT !.text = store[IndexOfKey(store, id)].text \o rec.text]]
  ELSE Append(store, rec)

\* store[id] = rec that keeps an existing record (first writer wins)
PutKeepFirst(store, id, rec) ==
  IF HasKey(store, id) THEN store ELSE Append(store, rec)

\* store[id] = rec: overwrite an existing property in place, else create it
Put(store, id, rec) ==
  IF HasKey(store, id)
  THEN [store EXCEPT ![IndexOfKey(store, id)] = rec]
  ELSE Append(store, rec)

DigitChars == {"0", "1", "2", "3", "4", "5", "6", "7", "8", "9"}
DigitOrder == <<"0", "1", "2", "3", "4", "5", "6", "7", "8", "9">>
DigitRank(c) == CHOOSE i \in 1..10 : DigitOrder[i] = c

\* a < b for digit strings of equal length
RECURSIVE DigitsLess(_, _)
DigitsLess(a, b) ==
  IF a = <<>> THEN FALSE
  ELSE IF Head(a) = Head(b) THEN DigitsLess(Tail(a), Tail(b))
       ELSE DigitRank(Head(a)) < DigitRank(Head(b))

\* numeric a < b for canonical numeric strings
NumLess(a, b) == Len(a) < Len(b) \/ (Len(a) = Len(b) /\ DigitsLess(a, b))

MaxIndexDigits == <<"4", "2", "9", "4", "9", "6", "7", "2", "9", "4">>

\* the key is an array index: the canonical decimal form of 0 .. 2^32 - 2
IsArrayIndex(k) ==
  /\ Len(k) > 0
  /\ \A i \in DOMAIN k : k[i] \in DigitChars
  /\ (Len(k) = 1 \/ k[1] # "0")
  /\ (NumLess(k, MaxIndexDigits) \/ k = MaxIndexDigits)

RECURSIVE SortIndexKeys(_, _)
SortIndexKeys(store, S) ==
  IF S = {} THEN <<>>
  ELSE LET m == CHOOSE i \in S : \A j \in S :
                  \/ NumLess(store[i].id, store[j].id)
                  \/ (store[i].id = store[j].id /\ i <= j)
       IN <<m>> \o SortIndexKeys(store, S \ {m})

RECURSIVE StringKeys(_, _)
StringKeys(store, i) ==
  IF i > Len(store) THEN <<>>
  ELSE IF IsArrayIndex(store[i].id) THEN StringKeys(store, i + 1)
       ELSE <<i>> \o StringKeys(store, i + 1)

\* own property order: array indices ascending, then the other keys in
\* creation order
OwnPropertyOrder(store) ==
  SortIndexKeys(store, {i \in DOMAIN store : IsArrayIndex(store[i].id)})
    \o StringKeys(store, 1)

\* Object.values(store)
ObjectValues(store) ==
  LET order == OwnPropertyOrder(store)
  IN [n \in 1..Len(order) |-> store[order[n]]]

(***************************************************************************)
(* Answers of the remote                                                   *)
(***************************************************************************)
\* fetchPageContent(pageId) settles: a page, or a thrown error
PageAnswers(pageId, pages) ==
  {[op |-> "fetchPageContent", id |-> pageId, ok |-> TRUE,
    title |-> p.title, html |-> p.html, ids |-> <<>>] : p \in pages}
  \cup {[op |-> "fetchPageContent", id |-> pageId, ok |-> FALSE,
         title |-> <<>>, html |-> <<>>, ids |-> <<>>]}

SeqsUpTo(S, n) == UNION {[1..k -> S] : k \in 0..n}

\* fetchChildPageIds(pageId) settles: a list of ids, or a thrown error
EnumAnswers(pageId, pool) ==
  {[op |-> "fetchChildPageIds", id |-> pageId, ok |-> TRUE,
    title |-> <<>>, html |-> <<>>, ids |-> s] : s \in SeqsUpTo(pool, MaxChildren)}
  \cup {[op |-> "fetchChildPageIds", id |-> pageId, ok |-> FALSE,
         title |-> <<>>, html |-> <<>>, ids |-> <<>>]}

\* the value undefined (an absent body, an absent member)
Undefined == [t |-> "undefined", s |-> <<>>, f |-> <<>>]

NoExchange == [received |-> Undefined, outcome |-> "none", after |-> Undefined,
               category |-> "none"]

\* the number of the load in progress, 0 when none is
LoadInProgress == IF pc = "idle" THEN 0 ELSE loads

\* during: the load that was in progress when the handler ran
NoResponse == [handler |-> "none", id |-> <<>>, threw |-> FALSE, text |-> <<>>,
               during |-> 0]

(***************************************************************************)
(* loadGuidelines, one action per awaited remote call                      *)
(***************************************************************************)
Init ==
  /\ guidelines = <<>>
  /\ pc = "idle"
  /\ childPageIds = <<>>
  /\ childIdx = 0
  /\ loads = 0
  /\ loadResult = "none"
  /\ log = <<>>
  /\ prevLog = <<>>
  /\ startStore = <<>>
  /\ accepting = FALSE
  /\ response = NoResponse
  /\ exchange = NoExchange
  /\ classified = {}
  /\ configOk \in BOOLEAN
  /\ exitCode = -1
  /\ logged = {}

\* loadGuidelines() is called and suspends on the fetch of the main page
BeginLoad ==
  /\ UNCHANGED <<mwVars, procVars, logged>>
  /\ pc = "idle"
  /\ pc' = "root"
  /\ loads' = loads + 1
  /\ loadResult' = "pending"
  /\ prevLog' = log
  /\ log' = <<>>
  /\ startStore' = guidelines
  /\ childPageIds' = <<>>
  /\ childIdx' = 0
  /\ UNCHANGED <<guidelines, accepting, response>>

\* startServer() that listens before it loads
StartServerListenFirst ==
  /\ configOk
  /\ loads = 0
  /\ pc = "idle"
  /\ pc' = "root"
  /\ loads' = loads + 1
  /\ loadResult' = "pending"
  /\ prevLog' = log
  /\ log' = <<>>
  /\ startStore' = guidelines
  /\ childPageIds' = <<>>
  /\ childIdx' = 0
  /\ accepting' = TRUE
  /\ UNCHANGED <<guidelines, response, mwVars, procVars, logged>>

\* startServer(): await loadGuidelines() before anything is served.  The
\* modules are loaded first, which takes the configuration check.
StartServer ==
  /\ configOk
  /\ loads = 0
  /\ BeginLoad

\* a later call of the exported loadGuidelines() in the running process
ReloadGuidelines ==
  /\ accepting
  /\ loads < MaxLoads
  /\ BeginLoad

\* the main page fetch settles; a failure is swallowed and the load goes on
FetchMainPageSwallow(pages) ==
  /\ UNCHANGED <<mwVars, procVars, logged>>
  /\ pc = "root"
  /\ \E ans \in PageAnswers(MAIN_PAGE_ID, pages) :
       /\ log' = Append(log, ans)
       /\ guidelines' = IF ans.ok
                        THEN Put(guidelines, MAIN_PAGE_ID,
                                 MakeGuideline(MAIN_PAGE_ID, ans, MainFallback))
                        ELSE guidelines
       /\ pc' = "enum"
       /\ UNCHANGED <<loadResult, accepting>>
  /\ UNCHANGED <<childPageIds, childIdx, loads, prevLog, startStore, response>>

\* a main page fetch that is tried a second time when the first one fails
FetchMainPageRetrying(pages) ==
  /\ UNCHANGED <<mwVars, procVars>>
  /\ pc = "root"
  /\ \E ans \in PageAnswers(MAIN_PAGE_ID, pages) :
       /\ log' = Append(log, ans)
       /\ IF ans.ok
          THEN /\ guidelines' = Put(guidelines, MAIN_PAGE_ID,
                                    MakeGuideline(MAIN_PAGE_ID, ans, MainFallback))
               /\ pc' = "enum"
               /\ UNCHANGED <<loadResult, logged>>
          ELSE IF Len(log) = 0
          THEN UNCHANGED <<pc, loadResult, logged, guidelines>>
          ELSE /\ pc' = "idle"
               /\ loadResult' = "rejected"
               /\ logged' = logged \cup {"Failed to load guidelines from Confluence"}
               /\ UNCHANGED guidelines
  /\ UNCHANGED <<childPageIds, childIdx, loads, prevLog, startStore,
                 accepting, response>>

\* a main page fetch whose failure empties the store before it rethrows
FetchMainPageClearing(pages) ==
  /\ UNCHANGED <<mwVars, procVars>>
  /\ pc = "root"
  /\ \E ans \in PageAnswers(MAIN_PAGE_ID, pages) :
       /\ log' = Append(log, ans)
       /\ IF ans.ok
          THEN /\ guidelines' = Put(guidelines, MAIN_PAGE_ID,
                                    MakeGuideline(MAIN_PAGE_ID, ans, MainFallback))
               /\ pc' = "enum"
               /\ UNCHANGED <<loadResult, logged>>
          ELSE /\ pc' = "idle"
               /\ loadResult' = "rejected"
               /\ logged' = logged \cup {"Failed to load guidelines from Confluence"}
               /\ guidelines' = <<>>
  /\ UNCHANGED <<childPageIds, childIdx, loads, prevLog, startStore,
                 accepting, response>>

\* the main page fetch settles: store the main page, or rethrow (fatal)
FetchMainPage(pages) ==
  /\ UNCHANGED <<mwVars, procVars>>
  /\ pc = "root"
  /\ \E ans \in PageAnswers(MAIN_PAGE_ID, pages) :
       /\ log' = Append(log, ans)
       /\ IF ans.ok
          THEN /\ guidelines' = Put(guidelines, MAIN_PAGE_ID,
                                    MakeGuideline(MAIN_PAGE_ID, ans, MainFallback))
               /\ pc' = "enum"
               /\ UNCHANGED <<loadResult, logged>>
          ELSE /\ pc' = "idle"
               /\ loadResult' = "rejected"
               /\ logged' = logged \cup {"Failed to load guidelines from Confluence"}
               /\ UNCHANGED guidelines
  /\ UNCHANGED <<childPageIds, childIdx, loads, prevLog, startStore,
                 accepting, response>>

\* the enumeration settles; a failure is rethrown and rejects the load
FetchChildPageIdsFatal(pool) ==
  /\ UNCHANGED <<mwVars, procVars, logged>>
  /\ pc = "enum"
  /\ \E ans \in EnumAnswers(MAIN_PAGE_ID, pool) :
       /\ log' = Append(log, ans)
       /\ childPageIds' = ans.ids
       /\ IF ~ans.ok
          THEN /\ pc' = "idle"
               /\ loadResult' = "rejected"
               /\ UNCHANGED <<childIdx, accepting>>
          ELSE IF Len(ans.ids) > 0
          THEN /\ pc' = "child"
               /\ childIdx' = 1
               /\ UNCHANGED <<loadResult, accepting>>
          ELSE /\ pc' = "idle"
               /\ loadResult' = "resolved"
               /\ accepting' = TRUE
               /\ UNCHANGED childIdx
  /\ UNCHANGED <<guidelines, loads, prevLog, startStore, response>>

\* the enumeration settles: a failure leaves childPageIds empty (non-fatal);
\* with no child the load returns, else the loop awaits the first child
FetchChildPageIds(pool) ==
  /\ UNCHANGED <<mwVars, procVars, logged>>
  /\ pc = "enum"
  /\ \E ans \in EnumAnswers(MAIN_PAGE_ID, pool) :
       /\ log' = Append(log, ans)
       /\ childPageIds' = IF ans.ok THEN ans.ids ELSE <<>>
       /\ IF ans.ok /\ Len(ans.ids) > 0
          THEN /\ pc' = "child"
               /\ childIdx' = 1
               /\ UNCHANGED <<loadResult, accepting>>
          ELSE /\ pc' = "idle"
               /\ loadResult' = "resolved"
               /\ accepting' = TRUE
               /\ UNCHANGED childIdx
  /\ UNCHANGED <<guidelines, loads, prevLog, startStore, response>>

\* a child fetch that goes on to the child's own children: the page "g",
\* listed under the child only, joins the ids to fetch
FetchChildPageDeep(pages) ==
  /\ UNCHANGED <<mwVars, procVars, logged>>
  /\ pc = "child"
  /\ \E ans \in PageAnswers(childPageIds[childIdx], pages) :
       LET ids == IF ans.ok /\ \A k \in DOMAIN childPageIds :
                                 childPageIds[k] # <<"g">>
                  THEN Append(childPageIds, <<"g">>)
                  ELSE childPageIds
       IN /\ log' = Append(log, ans)
          /\ childPageIds' = ids
          /\ guidelines' = IF ans.ok
                           THEN Put(guidelines, ans.id,
                                    MakeGuideline(ans.id, ans, ChildFallback))
                           ELSE guidelines
          /\ IF childIdx < Len(ids)
             THEN /\ childIdx' = childIdx + 1
                  /\ UNCHANGED <<pc, loadResult, accepting>>
             ELSE /\ pc' = "idle"
                  /\ loadResult' = "resolved"
                  /\ accepting' = TRUE
                  /\ UNCHANGED childIdx
  /\ UNCHANGED <<loads, prevLog, startStore, response>>

\* a child fetch settles; a failure leaves the loop (break)
FetchChildPageAbort(pages) ==
  /\ UNCHANGED <<mwVars, procVars, logged>>
  /\ pc = "child"
  /\ \E ans \in PageAnswers(childPageIds[childIdx], pages) :
       /\ log' = Append(log, ans)
       /\ guidelines' = IF ans.ok
                        THEN Put(guidelines, ans.id,
                                 MakeGuideline(ans.id, ans, ChildFallback))
                        ELSE guidelines
       /\ IF ans.ok /\ childIdx < Len(childPageIds)
          THEN /\ childIdx' = childIdx + 1
               /\ UNCHANGED <<pc, loadResult, accepting>>
          ELSE /\ pc' = "idle"
               /\ loadResult' = "resolved"
               /\ accepting' = TRUE
               /\ UNCHANGED childIdx
  /\ UNCHANGED <<childPageIds, loads, prevLog, startStore, response>>

\* a child fetch settles: store the child, or log the error and skip it;
\* then await the next child, or return after the last one
FetchChildPage(pages) ==
  /\ UNCHANGED <<mwVars, procVars, logged>>
  /\ pc = "child"
  /\ \E ans \in PageAnswers(childPageIds[childIdx], pages) :
       /\ log' = Append(log, ans)
       /\ guidelines' = IF ans.ok
                        THEN Put(guidelines, ans.id,
                                 MakeGuideline(ans.id, ans, ChildFallback))
                        ELSE guidelines
       /\ IF childIdx < Len(childPageIds)
          THEN /\ childIdx' = childIdx + 1
               /\ UNCHANGED <<pc, loadResult, accepting>>
          ELSE /\ pc' = "idle"
               /\ loadResult' = "resolved"
               /\ accepting' = TRUE
               /\ UNCHANGED childIdx
  /\ UNCHANGED <<childPageIds, loads, prevLog, startStore, response>>

\* startup: one load against the full remote
Next ==
  \/ StartServer
  \/ FetchMainPage(Pages)
  \/ FetchChildPageIds(ChildIdPool)
  \/ FetchChildPage(Pages)

Spec == Init /\ [][Next]_vars

\* startup where every remote call settles: the continuation of an awaited
\* call runs once the call has settled
SpecSettling ==
  /\ Init
  /\ [][Next]_vars
  /\ WF_vars(FetchMainPage(Pages))
  /\ WF_vars(FetchChildPageIds(ChildIdPool))
  /\ WF_vars(FetchChildPage(Pages))

\* startup followed by reloads
NextReload ==
  \/ StartServer
  \/ ReloadGuidelines
  \/ FetchMainPage(Pages)
  \/ FetchChildPageIds(ReloadIdPool)
  \/ FetchChildPage(Pages)

SpecReload == Init /\ [][NextReload]_vars

(***************************************************************************)
(* The entry point: how a failed startup ends the process                  *)
(***************************************************************************)
\* the process has not ended
Running == exitCode = -1

\* the configuration check at the load of loader.ts: a missing variable
\* throws while the modules are loaded, outside any try; the runtime
\* prints the error and ends the process with status 1
ModuleLoadThrows ==
  /\ Running
  /\ ~configOk
  /\ logged' = logged \cup {"Missing required environment variables"}
  /\ exitCode' = 1
  /\ UNCHANGED <<guidelines, pc, childPageIds, childIdx, loads, loadResult,
                 log, prevLog, startStore, accepting, response, mwVars,
                 configOk>>

\* the catch of the entry point ending the process with status 0
IndexCatchExitZero ==
  /\ Running
  /\ loads = 1
  /\ loadResult = "rejected"
  /\ logged' = logged \cup {"Failed to start server"}
  /\ exitCode' = 0
  /\ UNCHANGED <<guidelines, pc, childPageIds, childIdx, loads, loadResult,
                 log, prevLog, startStore, accepting, response, mwVars,
                 configOk>>

\* index.ts: await startServer(...) rejected, the catch logs and exits
IndexCatch ==
  /\ Running
  /\ loads = 1
  /\ loadResult = "rejected"
  /\ logged' = logged \cup {"Failed to start server"}
  /\ exitCode' = 1
  /\ UNCHANGED <<guidelines, pc, childPageIds, childIdx, loads, loadResult,
                 log, prevLog, startStore, accepting, response, mwVars,
                 configOk>>

\* the entry point without a catch: the rejection of startServer(...) is
\* unhandled, the runtime prints the error and ends the process with
\* status 1
UnhandledRejection ==
  /\ Running
  /\ loads = 1
  /\ loadResult = "rejected"
  /\ logged' = logged \cup {"Unhandled promise rejection"}
  /\ exitCode' = 1
  /\ UNCHANGED <<guidelines, pc, childPageIds, childIdx, loads, loadResult,
                 log, prevLog, startStore, accepting, response, mwVars,
                 configOk>>

\* the process from its start to serving or to its end
NextStartup ==
  \/ ModuleLoadThrows
  \/ StartServer
  \/ FetchMainPage(Pages)
  \/ FetchChildPageIds(ChildIdPool)
  \/ FetchChildPage(Pages)
  \/ IndexCatch
  \/ UnhandledRejection

\* a thrown error and a rejected promise are acted on by the runtime
SpecStartup ==
  /\ Init
  /\ [][NextStartup]_vars
  /\ WF_vars(ModuleLoadThrows)
  /\ WF_vars(IndexCatch \/ UnhandledRejection)

(***************************************************************************)
(* Resource handlers                                                       *)
(***************************************************************************)
\* the {id} values of guideline://{id} that clients send
RequestedIds == {<<"3">>, <<"9">>, <<"%", "3", "3">>, <<"%">>}

HexOrder == <<"0", "1", "2", "3", "4", "5", "6", "7", "8", "9",
              "a", "b", "c", "d", "e", "f">>
HexUpper == <<"0", "1", "2", "3", "4", "5", "6", "7", "8", "9",
              "A", "B", "C", "D", "E", "F">>

IsHex(c) == \E i \in 1..16 : HexOrder[i] = c \/ HexUpper[i] = c

HexValue(c) == (CHOOSE i \in 1..16 : HexOrder[i] = c \/ HexUpper[i] = c) - 1

\* the characters with codes 32 .. 126 (code 96 by its name)
PrintableAscii ==
  <<
    " ", "!", "\"", "#", "$", "%", "&", "'", "(", ")", "*", "+", ",", "-",
    ".", "/", "0", "1", "2", "3", "4", "5", "6", "7", "8", "9", ":", ";",
    "<", "=", ">", "?", "@", "A", "B", "C", "D", "E", "F", "G", "H", "I",
    "J", "K", "L", "M", "N", "O", "P", "Q", "R", "S", "T", "U", "V", "W",
    "X", "Y", "Z", "[", "\\", "]", "^", "_", "grave", "a", "b", "c", "d", "e",
    "f", "g", "h", "i", "j", "k", "l", "m", "n", "o", "p", "q", "r", "s",
    "t", "u", "v", "w", "x", "y", "z", "{", "|", "}", "~"
  >>

\* decodeURIComponent(s): [ok, value]; ok = FALSE is a thrown URIError.
\* An escape below 0x80 is the character with that code (a control character
\* other than tab and newline by the name "control"); a "%" without two hex
\* digits, and a byte from 0x80 on that starts no well-formed UTF-8
\* sequence, is malformed.
RECURSIVE DecodeURIComponent(_)
DecodeURIComponent(s) ==
  IF s = <<>> THEN [ok |-> TRUE, value |-> <<>>]
  ELSE IF Head(s) # "%"
  THEN LET rest == DecodeURIComponent(Tail(s))
       IN IF rest.ok
          THEN [ok |-> TRUE, value |-> <<Head(s)>> \o rest.value]
          ELSE [ok |-> FALSE, value |-> <<>>]
  ELSE IF Len(s) < 3 \/ ~IsHex(s[2]) \/ ~IsHex(s[3])
  THEN [ok |-> FALSE, value |-> <<>>]
  ELSE LET code == 16 * HexValue(s[2]) + HexValue(s[3])
           rest == DecodeURIComponent(SubSeq(s, 4, Len(s)))
           char == IF code = 9 THEN "\t"
                   ELSE IF code = 10 THEN "\n"
                   ELSE IF code < 32 \/ code = 127 THEN "control"
                   ELSE PrintableAscii[code - 31]
       IN IF code > 127 \/ ~rest.ok
          THEN [ok |-> FALSE, value |-> <<>>]
          ELSE [ok |-> TRUE, value |-> <<char>> \o rest.value]

\* "[No guideline text found for this resource]"
NoGuidelineText ==
  <<
    "[", "N", "o", " ", "g", "u", "i", "d", "e", "l", "i", "n", "e", " ",
    "t", "e", "x", "t", " ", "f", "o", "u", "n", "d", " ", "f", "o", "r",
    " ", "t", "h", "i", "s", " ", "r", "e", "s", "o", "u", "r", "c", "e",
    "]"
  >>

SectionHeader == <<"#", "#", "#", " ">>

\* records.map((g) => `### ${g.title}\n${g.text}`).join("\n\n")
SectionsText(records) ==
  Join([n \in DOMAIN records |->
          SectionHeader \o records[n].title \o <<"\n">> \o records[n].text],
       <<"\n", "\n">>)

\* the combined text of the all-guidelines resource
CombinedText(store) == SectionsText(ObjectValues(store))

\* server.resource("guideline") that drops the record it has read
ReadGuidelineEvicting ==
  /\ UNCHANGED <<mwVars, procVars, logged>>
  /\ accepting
  /\ \E id \in RequestedIds :
       /\ response' = [handler |-> "guideline", id |-> id, threw |-> FALSE,
                       during |-> LoadInProgress,
                       text |-> IF HasKey(guidelines, id)
                                THEN GetGuideline(guidelines, id).text
                                ELSE <<>>]
       /\ guidelines' = SelectSeq(guidelines, LAMBDA g : g.id # id)
  /\ UNCHANGED <<pc, childPageIds, childIdx, loads, loadResult,
                 log, prevLog, startStore, accepting>>

\* server.resource("guideline"): guidelines[id], text: g?.text || ""
ReadGuideline ==
  /\ UNCHANGED <<mwVars, procVars, logged>>
  /\ accepting
  /\ \E id \in RequestedIds :
       response' = [handler |-> "guideline", id |-> id, threw |-> FALSE,
                    during |-> LoadInProgress,
                    text |-> IF HasKey(guidelines, id)
                             THEN GetGuideline(guidelines, id).text
                             ELSE <<>>]
  /\ UNCHANGED <<guidelines, pc, childPageIds, childIdx, loads, loadResult,
                 log, prevLog, startStore, accepting>>

\* server.resource("guideline") of the variant that looks up
\* decodeURIComponent(id).trim() and answers a placeholder when it finds none
ReadGuidelineDecoded ==
  /\ UNCHANGED <<mwVars, procVars, logged>>
  /\ accepting
  /\ \E id \in RequestedIds :
       LET decoded == DecodeURIComponent(id)
           decodedId == Trim(decoded.value)
       IN response' =
            IF ~decoded.ok
            THEN [handler |-> "guideline-decoded", id |-> id, threw |-> TRUE,
                  during |-> LoadInProgress,
                  text |-> <<>>]
            ELSE [handler |-> "guideline-decoded", id |-> id, threw |-> FALSE,
                  during |-> LoadInProgress,
                  text |-> IF HasKey(guidelines, decodedId)
                           THEN GetGuideline(guidelines, decodedId).text
                           ELSE NoGuidelineText]
  /\ UNCHANGED <<guidelines, pc, childPageIds, childIdx, loads, loadResult,
                 log, prevLog, startStore, accepting>>

\* server.resource("all-guidelines")
ReadAllGuidelines ==
  /\ UNCHANGED <<mwVars, procVars, logged>>
  /\ accepting
  /\ response' = [handler |-> "all-guidelines", id |-> <<>>, threw |-> FALSE,
                  during |-> LoadInProgress,
                  text |-> CombinedText(guidelines)]
  /\ UNCHANGED <<guidelines, pc, childPageIds, childIdx, loads, loadResult,
                 log, prevLog, startStore, accepting>>

\* the label the condensed view starts with
CondensedLabel ==
  <<"T", "B", "C", " ", "B", "a", "n", "k", " ", "D", "e", "v", "e", "l",
    "o", "p", "m", "e", "n", "t", " ", "S", "t", "a", "n", "d", "a", "r",
    "d", "s", ":", " ">>

\* `${g.title}: ${g.text}`
CondensedEntry(g) == g.title \o <<":", " ">> \o g.text

CondensedTextNoLabel(store) ==
  LET values == ObjectValues(store)
  IN Join([i \in DOMAIN values |-> CondensedEntry(values[i])],
          <<" ", "|", " ">>)

\* the text of the condensed view: the label, then the entries joined by " | "
CondensedText(store) ==
  LET values == ObjectValues(store)
  IN CondensedLabel \o
     Join([i \in DOMAIN values |-> CondensedEntry(values[i])],
          <<" ", "|", " ">>)

\* server.resource("context")
ReadContext ==
  /\ UNCHANGED <<mwVars, procVars, logged>>
  /\ accepting
  /\ response' = [handler |-> "context", id |-> <<>>, threw |-> FALSE,
                  during |-> LoadInProgress,
                  text |-> CondensedText(guidelines)]
  /\ UNCHANGED <<guidelines, pc, childPageIds, childIdx, loads, loadResult,
                 log, prevLog, startStore, accepting>>

\* startup, then resource reads
NextView ==
  \/ StartServer
  \/ FetchMainPage(Pages)
  \/ FetchChildPageIds(ChildIdPool)
  \/ FetchChildPage(Pages)
  \/ ReadGuideline
  \/ ReadGuidelineDecoded
  \/ ReadAllGuidelines
  \/ ReadContext

SpecView == Init /\ [][NextView]_vars

(***************************************************************************)
(* Request bodies: JSON values as express.json() hands them to the handler *)
(***************************************************************************)
\* A JSON value is a record [t, s, f]: t its type, s the characters of a
\* string, number or boolean, f the members [k, v] of an object in property
\* creation order.  The member names used are not array indices, so creation
\* order is the order JSON.stringify and Object.keys list them in.
Str(chars) == [t |-> "string", s |-> chars, f |-> <<>>]

Num(digits) == [t |-> "number", s |-> digits, f |-> <<>>]

True == [t |-> "boolean", s |-> <<"t", "r", "u", "e">>, f |-> <<>>]

Obj(members) == [t |-> "object", s |-> <<>>, f |-> members]

EmptyObject == Obj(<<>>)

IsObject(v) == v.t = "object"

\* ToBoolean(v)
Truthy(v) ==
  CASE v.t \in {"undefined", "null"} -> FALSE
    [] v.t = "boolean" -> v.s = <<"t", "r", "u", "e">>
    [] v.t = "number" -> v.s # <<"0">>
    [] v.t = "string" -> v.s # <<>>
    [] OTHER -> TRUE

HasMember(obj, key) == \E i \in DOMAIN obj.f : obj.f[i].k = key

\* obj[key] (obj?.[key] where obj may be undefined): a primitive has no own
\* member of these names, an absent member reads undefined
Get(obj, key) ==
  IF HasMember(obj, key)
  THEN obj.f[CHOOSE i \in DOMAIN obj.f : obj.f[i].k = key].v
  ELSE Undefined

\* obj[key] = value that leaves an existing member as it is
SetKeepExisting(obj, key, value) ==
  IF HasMember(obj, key) THEN obj
  ELSE Obj(Append(obj.f, [k |-> key, v |-> value]))

\* obj[key] = value that drops every other member
SetOnly(obj, key, value) == Obj(<<[k |-> key, v |-> value]>>)

\* obj[key] = value on an object: an existing member keeps its place, a
\* new one is created last
Set(obj, key, value) ==
  IF HasMember(obj, key)
  THEN Obj([i \in DOMAIN obj.f |->
              IF obj.f[i].k = key THEN [k |-> key,
                    v |-> value] ELSE obj.f[i]])
  ELSE Obj(Append(obj.f, [k |-> key, v |-> value]))

\* v || {} with every value replaced
AlwaysEmptyObject(v) == EmptyObject

\* v || {}
OrEmptyObject(v) == IF Truthy(v) THEN v ELSE EmptyObject

\* JSON.stringify of a string: quoted, with quote, backslash and newline
\* escaped
RECURSIVE Quote(_)
Quote(chars) ==
  IF chars = <<>> THEN <<>>
  ELSE (CASE Head(chars) = "\"" -> <<"\\", "\"">>
          [] Head(chars) = "\\" -> <<"\\", "\\">>
          [] Head(chars) = "\n" -> <<"\\", "n">>
          [] OTHER -> <<Head(chars)>>) \o Quote(Tail(chars))

\* JSON.stringify(value): members whose value is undefined are left out
RECURSIVE JsonStringify(_)
RECURSIVE StringifyMembers(_, _)
StringifyMembers(members, first) ==
  IF members = <<>> THEN <<>>
  ELSE IF Head(members).v.t = "undefined"
       THEN StringifyMembers(Tail(members), first)
       ELSE (IF first THEN <<>> ELSE <<",">>)
            \o <<"\"">> \o Quote(Head(members).k) \o <<"\"", ":">>
            \o JsonStringify(Head(members).v)
            \o StringifyMembers(Tail(members), FALSE)

JsonStringify(value) ==
  CASE value.t = "string" -> <<"\"">> \o Quote(value.s) \o <<"\"">>
    [] value.t \in {"number", "boolean"} -> value.s
    [] value.t = "null" -> <<"n", "u", "l", "l">>
    [] value.t = "object" ->
         <<"{">> \o StringifyMembers(value.f, TRUE) \o <<"}">>
    [] OTHER -> <<>>

UpperCase == <<"A", "B", "C", "D", "E", "F", "G", "H", "I", "J", "K", "L",
      "M", "N", "O", "P", "Q", "R", "S", "T", "U", "V", "W", "X", "Y", "Z">>

LowerCase == <<"a", "b", "c", "d", "e", "f", "g", "h", "i", "j", "k", "l",
      "m", "n", "o", "p", "q", "r", "s", "t", "u", "v", "w", "x", "y", "z">>

\* String.prototype.toLowerCase on the characters used
ToLowerCase(chars) ==
  [i \in DOMAIN chars |->
     IF \E j \in DOMAIN UpperCase : UpperCase[j] = chars[i]
     THEN LowerCase[CHOOSE j \in DOMAIN UpperCase : UpperCase[j] = chars[i]]
     ELSE chars[i]]

\* String.prototype.includes
Includes(chars, word) ==
  \E i \in 0..(Len(chars) - Len(word)) :
     SubSeq(chars, i + 1, i + Len(word)) = word

(***************************************************************************)
(* The request middleware of POST /mcp                                     *)
(***************************************************************************)
\* The fixed texts are each held as one element naming the text; none of
\* them holds "### " or any text of a record.
TbcScanner ==
  <<"\n", "TBC BANK STANDARDS - PROACTIVE CODE GENERATION (fixed text)",
    "\n">>

ScannerBlock(category) ==
  CASE category = "api" -> <<"API ENDPOINT SCANNER ACTIVE (fixed text)">>
    [] category = "logging" -> <<"LOGGING VIOLATION SCANNER ACTIVE (fixed text)">>
    [] category = "database" -> <<"DATABASE VIOLATION SCANNER ACTIVE (fixed text)">>
    [] OTHER -> <<"COMPREHENSIVE TBC SCANNER ACTIVE (fixed text)">>

\* the if-chain of createFocusedContext with the logging test first
ClassifyLoggingFirst(requestText) ==
  IF Includes(requestText, <<"l", "o", "g", "g", "e",
                             "r">>) \/ Includes(requestText, <<"l", "o",
                                                               "g">>)
  THEN "logging"
  ELSE IF \/ Includes(requestText, <<"h", "t", "t", "p", "g", "e", "t">>)
          \/ Includes(requestText, <<"h", "t", "t", "p", "p", "o", "s", "t">>)
          \/ Includes(requestText, <<"c", "o", "n", "t", "r", "o", "l", "l",
                                     "e", "r">>)
          \/ Includes(requestText, <<"r", "o", "u", "t", "e">>)
       THEN "api"
       ELSE IF \/ Includes(requestText, <<"d", "b", "c", "o", "n", "t", "e",
                                          "x", "t">>)
               \/ Includes(requestText, <<"e", "n", "t", "i", "t", "y">>)
            THEN "database"
            ELSE "default"

\* the if-chain of createFocusedContext: the category of a scan string
Classify(requestText) ==
  IF \/ Includes(requestText, <<"h", "t", "t", "p", "g", "e", "t">>)
     \/ Includes(requestText, <<"h", "t", "t", "p", "p", "o", "s", "t">>)
     \/ Includes(requestText, <<"c", "o", "n", "t", "r", "o", "l", "l", "e",
                                "r">>)
     \/ Includes(requestText, <<"r", "o", "u", "t", "e">>)
  THEN "api"
  ELSE IF Includes(requestText, <<"l", "o", "g", "g", "e",
                                  "r">>) \/ Includes(requestText, <<"l", "o",
                                                                    "g">>)
       THEN "logging"
       ELSE IF \/ Includes(requestText, <<"d", "b", "c", "o", "n", "t", "e",
                                          "x", "t">>)
               \/ Includes(requestText, <<"e", "n", "t", "i", "t", "y">>)
            THEN "database"
            ELSE "default"

\* JSON.stringify(requestBody).toLowerCase()
RequestText(requestBody) == ToLowerCase(JsonStringify(requestBody))

\* the category createFocusedContext selects for a body; this one lets the
\* number of records decide
CategoryOfByStore(requestBody, store) ==
  IF Len(store) >= 2 THEN "default" ELSE Classify(RequestText(requestBody))

\* the category createFocusedContext selects for a body
CategoryOf(requestBody, store) == Classify(RequestText(requestBody))

\* createFocusedContext with no record listed
CreateFocusedContextNoRecords(requestBody, store) ==
  TbcScanner \o <<"\n", "\n">>
  \o ScannerBlock(CategoryOf(requestBody, store)) \o <<"\n", "\n">>

\* createFocusedContext(requestBody, guidelines)
CreateFocusedContext(requestBody, store) ==
  TbcScanner \o <<"\n", "\n">>
  \o ScannerBlock(CategoryOf(requestBody, store)) \o <<"\n", "\n">>
  \o SectionsText(ObjectValues(store))

MessageHeader ==
  <<"\n", "TBC BANK DEVELOPMENT STANDARDS - PROACTIVE ENFORCEMENT:",
    "\n", "\n">>

MessageTrailer ==
  <<"\n", "\n", "CRITICAL BEHAVIOR RULES (fixed text)", "\n">>

\* the template written to params.context.systemMessage
SystemMessage(focusedGuidelines) ==
  MessageHeader \o focusedGuidelines \o MessageTrailer

\* the substrings of a method name that select the enforcement flags
LifecycleWords ==
  {<<"c", "o", "m", "p", "l", "e", "t", "i", "o", "n">>, <<"h", "o", "v",
                                                           "e", "r">>, <<"c",
                                                                         "o",
        "d", "e", "A", "c", "t", "i", "o", "n">>, <<"d", "i", "a", "g", "n",
                                                    "o", "s", "t", "i",
        "c">>, <<"s", "y", "m", "b", "o", "l">>}

\* the condition of the enforcement flags without the substring tests
IsLifecycleInitializeOnly(method) == method = <<"i", "n", "i", "t", "i", "a", "l", "i", "z", "e">>

\* the condition of the enforcement flags; method is a string here
IsLifecycle(method) ==
  \/ \E w \in LifecycleWords : Includes(method, w)
  \/ method = <<"i", "n", "i", "t", "i", "a", "l", "i", "z", "e">>

\* the five members written for a lifecycle method
EnforcementFlags(context, focusedGuidelines) ==
  LET c1 == Set(context, <<"t", "b", "c", "B", "a", "n", "k">>, True)
      c2 == Set(c1, <<"t", "b", "c", "S", "e", "r", "v", "e", "r">>,
                      Str(<<"h", "t", "t", "p", ":", "/", "/", "l", "o", "c",
                            "a", "l", "h", "o", "s", "t", ":", "8", "0", "8",
            "0">>))
      c3 == Set(c2, <<"g", "u", "i", "d", "e", "l", "i", "n", "e", "s">>,
                      Str(focusedGuidelines))
      c4 == Set(c3, <<"i", "n", "s", "t", "r", "u", "c", "t", "i", "o", "n">>,
                Str(<<"ENFORCE TBC Bank coding standards in all responses - any workspace">>))
  IN Set(c4, <<"w", "o", "r", "k", "s", "p", "a", "c", "e", "A", "g", "n",
               "o", "s", "t", "i", "c">>, True)

\* the value of params.capabilities.tbcBank
CapabilityMarker ==
  Obj(<<[k |-> <<"g", "u", "i", "d", "e", "l", "i", "n", "e", "s", "A", "c",
                 "t", "i", "v", "e">>, v |-> True],
        [k |-> <<"e", "n", "f", "o", "r", "c", "e", "S", "t", "a", "n", "d",
                 "a", "r", "d", "s">>, v |-> True],
        [k |-> <<"s", "e", "r", "v", "e", "r", "U", "r", "l">>,
                 v |-> Str(<<"h", "t", "t", "p", ":", "/", "/", "l", "o",
                             "c", "a", "l", "h", "o", "s", "t", ":", "8",
              "0", "8", "0", "/", "m", "c", "p">>)]>>)

\* the condition of the capability marker taken for every method name
IsInitializeAny(method) == method.t = "string"

\* req.body.method === 'initialize'
IsInitialize(method) == method = Str(<<"i", "n", "i", "t", "i", "a", "l", "i", "z", "e">>)

\* The handler of POST /mcp on a parsed body, up to the dispatcher call:
\* outcome "forwarded" when server.connect / transport.handleRequest is
\* reached, "threw" when a TypeError ends the handler before it; after is
\* req.body as the handler leaves it.  focusedGuidelines and category are
\* what createFocusedContext gives for the body.  The module is an ES
\* module, hence strict code: creating a property on a string throws.
HandleRequest(body, focusedGuidelines, category) ==
  LET method == Get(body, <<"m", "e", "t", "h", "o", "d">>)
      params == OrEmptyObject(Get(body, <<"p", "a", "r", "a", "m", "s">>))
      context == OrEmptyObject(Get(params, <<"c", "o", "n", "t", "e", "x",
                                             "t">>))
      withMessage ==
        Set(context, <<"s", "y", "s", "t", "e", "m", "M", "e", "s", "s", "a",
                       "g", "e">>, Str(SystemMessage(focusedGuidelines)))
      lifecycle == method.t = "string" /\ IsLifecycle(method.s)
      withFlags == IF lifecycle
                   THEN EnforcementFlags(withMessage, focusedGuidelines)
                   ELSE withMessage
      capabilities == OrEmptyObject(Get(params, <<"c", "a", "p", "a", "b",
                                                  "i", "l", "i", "t", "i",
            "e", "s">>))
      \* req.body with params.context set to c
      WithContext(c) == Set(body, <<"p", "a", "r", "a", "m", "s">>,
                                    Set(params, <<"c", "o", "n", "t", "e",
                                                  "x", "t">>, c))
      \* ... and params.capabilities set to k
      WithCapabilities(c, k) ==
        Set(body, <<"p", "a", "r", "a", "m", "s">>,
            Set(Set(params, <<"c", "o", "n", "t", "e", "x", "t">>, c), <<"c",
                                                                         "a",
                  "p", "a", "b", "i", "l", "i", "t", "i", "e", "s">>, k))
      Result(outcome, after) ==
        [outcome |-> outcome, after |-> after, category |-> category]
  IN
  IF ~Truthy(method)
  THEN [outcome |-> "forwarded", after |-> body, category |-> "none"]
  ELSE IF ~IsObject(params)
       \* req.body.params.context = ... on a primitive
       THEN Result("threw", Set(body, <<"p", "a", "r", "a", "m", "s">>,
                                        params))
  ELSE IF ~IsObject(context)
       \* req.body.params.context.systemMessage = ... on a primitive
       THEN Result("threw", WithContext(context))
  ELSE IF method.t # "string"
       \* req.body.method.includes is not a function
       THEN Result("threw", WithContext(withMessage))
  ELSE IF ~IsInitialize(method)
       THEN Result("forwarded", WithContext(withFlags))
  ELSE IF ~IsObject(capabilities)
       \* req.body.params.capabilities.tbcBank = ... on a primitive
       THEN Result("threw", WithCapabilities(withFlags, capabilities))
  ELSE Result("forwarded",
              WithCapabilities(withFlags,
                               Set(capabilities, <<"t", "b", "c", "B", "a",
                                                   "n", "k">>,
                                     CapabilityMarker)))

\* a body express.json() cannot parse
Unparseable(chars) == [t |-> "unparseable", s |-> chars, f |-> <<>>]

\* POST /mcp with one of the given bodies.  express.json() answers 400 to
\* an unparseable body and the handler is not run.  A TypeError in the
\* handler rejects its promise and the dispatcher call is not reached.
PostMcp(bodies) ==
  /\ accepting
  /\ \E body \in bodies :
       IF body.t = "unparseable"
       THEN /\ exchange' = [received |-> body, outcome |-> "rejected",
                            after |-> body, category |-> "none"]
            /\ UNCHANGED classified
       ELSE \E focusedGuidelines \in {CreateFocusedContext(body, guidelines)},
               category \in {CategoryOf(body, guidelines)} :
            \E result \in {HandleRequest(body, focusedGuidelines, category)} :
               /\ exchange' = [received |-> body, outcome |-> result.outcome,
                               after |-> result.after,
                               category |-> result.category]
               /\ IF result.category # "none" /\ classified = {}
                  THEN classified' \in
                         {{}, {[body |-> body, category |-> result.category]}}
                  ELSE UNCHANGED classified
  /\ UNCHANGED <<guidelines, pc, childPageIds, childIdx, loads, loadResult,
                 log, prevLog, startStore, accepting, response, procVars,
                 logged>>

Member(key, value) == [k |-> key, v |-> value]

\* {"method": m}
MethodOnly(m) == Obj(<<Member(<<"m", "e", "t", "h", "o", "d">>, m)>>)

\* {"method": m, "params": p}
Request(m, p) == Obj(<<Member(<<"m", "e", "t", "h", "o", "d">>, m),
                                Member(<<"p", "a", "r", "a", "m", "s">>, p)>>)

\* {"text": t}
TextParams(chars) == Obj(<<Member(<<"t", "e", "x", "t">>, Str(chars))>>)

\* the request bodies posted to /mcp
Bodies ==
  { \* initialize, with an id, capabilities and a context of the client
    \* that names members the middleware writes
    Obj(<<Member(<<"i", "d">>, Num(<<"1">>)),
          Member(<<"m", "e", "t", "h", "o", "d">>, Str(<<"i", "n", "i", "t",
                                                         "i", "a", "l", "i",
                "z", "e">>)),
          Member(<<"p", "a", "r", "a", "m", "s">>,
            Obj(<<Member(<<"c", "a", "p", "a", "b", "i", "l", "i", "t", "i",
                           "e", "s">>, Obj(<<Member(<<"x">>,
                                                      Num(<<"1">>))>>)),
                  Member(<<"c", "o", "n", "t", "e", "x", "t">>,
                    Obj(<<Member(<<"f", "o", "o">>, Num(<<"1">>)),
                          Member(<<"s", "y", "s", "t", "e", "m", "M", "e",
                                   "s", "s", "a", "g", "e">>, Str(<<"o", "l",
                                                                    "d">>)),
                          Member(<<"t", "b", "c", "B", "a", "n", "k">>,
                                   Str(<<"n", "o">>))>>))>>))>>),
    \* a lifecycle method; API-shape and logging words together
    Request(Str(<<"t", "e", "x", "t", "D", "o", "c", "u", "m", "e", "n", "t",
                  "/", "h", "o", "v", "e", "r">>), TextParams(<<"H", "t",
                                                                "t", "p",
          "G", "e", "t", " ", "l", "o", "g", "g", "e", "r">>)),
    \* logging and data-access words together
    Request(Str(<<"t", "o", "o", "l", "s", "/", "c", "a", "l", "l">>),
                  TextParams(<<"L", "o", "g", " ", "d", "b", "C", "o", "n",
                               "t", "e", "x", "t">>)),
    \* a data-access word; capabilities on a method other than initialize
    Request(Str(<<"x">>),
            Obj(<<Member(<<"t", "e", "x", "t">>, Str(<<"E", "n", "t", "i",
                                                       "t", "y">>)),
                  Member(<<"c", "a", "p", "a", "b", "i", "l", "i", "t", "i",
                           "e", "s">>, Obj(<<Member(<<"x">>,
                                                      Num(<<"1">>))>>))>>)),
    \* no params, no keyword
    MethodOnly(Str(<<"x">>)),
    \* a method that is not a string
    MethodOnly(Num(<<"5">>)),
    \* params that is a string
    Request(Str(<<"x">>), Str(<<"a", "b", "c">>)),
    \* params.context that is a string
    Request(Str(<<"x">>), Obj(<<Member(<<"c", "o", "n", "t", "e", "x", "t">>,
                                         Str(<<"s">>))>>)),
    \* params.capabilities that is a string
    Request(Str(<<"i", "n", "i", "t", "i", "a", "l", "i", "z", "e">>),
            Obj(<<Member(<<"c", "a", "p", "a", "b", "i", "l", "i", "t", "i",
                           "e", "s">>, Str(<<"c">>))>>)),
    \* no method
    Obj(<<Member(<<"i", "d">>, Num(<<"1">>))>>),
    \* an empty method
    MethodOnly(Str(<<>>)),
    \* no body
    Undefined,
    \* not JSON
    Unparseable(<<"{", "\"", "m", "e", "t", "h", "o", "d", "\"", ":">>) }

\* the bodies posted while the store is reloaded
ReloadBodies ==
  { Request(Str(<<"x">>), TextParams(<<"E", "n", "t", "i", "t", "y">>)),
    Request(Str(<<"t", "o", "o", "l", "s", "/", "c", "a", "l", "l">>),
                  TextParams(<<"L", "o", "g", " ", "d", "b", "C", "o", "n",
                               "t", "e", "x", "t">>)),
    MethodOnly(Str(<<"x">>)) }

\* the child ids and pages answered while requests are posted
MwIdPool == {<<"3">>}

MwPages == {PageB}

\* startup, then requests on POST /mcp
NextMw ==
  \/ StartServer
  \/ FetchMainPage(MwPages)
  \/ FetchChildPageIds(MwIdPool)
  \/ FetchChildPage(MwPages)
  \/ PostMcp(Bodies)

SpecMw == Init /\ [][NextMw]_vars

\* loads repeated in the running process, with requests on POST /mcp
NextMwReload ==
  \/ StartServer
  \/ ReloadGuidelines
  \/ FetchMainPage(MwPages)
  \/ FetchChildPageIds(MwIdPool)
  \/ FetchChildPage(MwPages)
  \/ PostMcp(ReloadBodies)

SpecMwReload == Init /\ [][NextMwReload]_vars

(***************************************************************************)
(* Listing, prompts and tools                                              *)
(***************************************************************************)
\* the list callback of the guideline template: uri and name of every key,
\* in Object.keys order, one line each
ListGuidelines ==
  /\ accepting
  /\ response' =
       [handler |-> "list", id |-> <<>>, threw |-> FALSE,
        during |-> LoadInProgress,
        text |-> LET values == ObjectValues(guidelines)
                 IN Join([i \in DOMAIN values |->
                            <<"g", "u", "i", "d", "e", "l", "i", "n", "e",
                              ":", "/", "/">> \o values[i].id \o <<" ">>
                            \o values[i].title],
                         <<"\n">>)]
  /\ UNCHANGED <<guidelines, pc, childPageIds, childIdx, loads, loadResult,
                 log, prevLog, startStore, accepting, mwVars, procVars,
                 logged>>

\* the prompts; generate-code and review-code take an argument
PromptNames ==
  {"context", "proactive-tbc-generation", "inline-context", "team-standards",
   "generate-code", "review-code"}

PromptArguments == {<<"x">>}

\* the fixed text a prompt puts before the combined text, held as one element
PromptLead(name) == <<name, " (fixed text before the guidelines)", "\n">>

\* what a prompt puts after the combined text
PromptTail(name, argument) ==
  CASE name = "inline-context" ->
         <<"\n", "\n", "IMPORTANT (fixed text after the guidelines)">>
    [] name = "generate-code" ->
         <<"\n", "\n", "Now generate code for:", "\n">> \o argument
    [] name = "review-code" -> <<"\n", "\n", "Code:", "\n">> \o argument
    [] OTHER -> <<>>

\* server.prompt(name): a text built around the combined text
InvokePrompt ==
  /\ accepting
  /\ \E name \in PromptNames, argument \in PromptArguments :
       response' = [handler |-> "prompt", id |-> <<name>>, threw |-> FALSE,
                    during |-> LoadInProgress,
                    text |-> PromptLead(name) \o CombinedText(guidelines)
                             \o PromptTail(name, argument)]
  /\ UNCHANGED <<guidelines, pc, childPageIds, childIdx, loads, loadResult,
                 log, prevLog, startStore, accepting, mwVars, procVars,
                 logged>>

\* server.tool("ping")
CallPing ==
  /\ accepting
  /\ \E message \in PromptArguments :
       response' = [handler |-> "ping", id |-> message, threw |-> FALSE,
                    during |-> LoadInProgress,
                    text |-> <<"Y", "o", "u", " ", "s", "a", "i", "d", ":",
                               " ">> \o message]
  /\ UNCHANGED <<guidelines, pc, childPageIds, childIdx, loads, loadResult,
                 log, prevLog, startStore, accepting, mwVars, procVars,
                 logged>>

\* server.tool("get-guidelines")
CallGetGuidelines ==
  /\ accepting
  /\ response' =
       [handler |-> "get-guidelines", id |-> <<>>, threw |-> FALSE,
        during |-> LoadInProgress,
        text |-> <<"TBC Bank Development Guidelines:", "\n", "\n">>
                 \o CombinedText(guidelines)
                 \o <<"\n", "\n",
                      "Please follow these guidelines when generating code suggestions.">>]
  /\ UNCHANGED <<guidelines, pc, childPageIds, childIdx, loads, loadResult,
                 log, prevLog, startStore, accepting, mwVars, procVars,
                 logged>>

\* the endpoint strings given to check-api-naming
Endpoints ==
  {<<"/", "a", "p", "i", "/", "g", "e", "t", "_", "u", "s", "e", "r", "s">>,
     <<"/", "a", "p", "i", "/", "g", "e", "t", "-", "u", "s", "e", "r",
       "s">>, <<"/", "a", "_", "b", "-", "c", "_", "d">>, <<"u", "s", "e",
                                                            "r", "s">>,
   <<"/", "a", "p", "i", "/", "u", "s", "e", "r", "s">>, <<"u", "s", "e",
                                                           "r", "_", "i",
         "d">>, <<>>}

\* endpoint.replace('_', '-'): the first underscore only
RECURSIVE ReplaceFirstUnderscore(_)
ReplaceFirstUnderscore(chars) ==
  IF chars = <<>> THEN <<>>
  ELSE IF Head(chars) = "_" THEN <<"-">> \o Tail(chars)
       ELSE <<Head(chars)>> \o ReplaceFirstUnderscore(Tail(chars))

\* endpoint.replace(/_/g, '-')
RECURSIVE ReplaceUnderscores(_)
ReplaceUnderscores(chars) ==
  IF chars = <<>> THEN <<>>
  ELSE <<IF Head(chars) = "_" THEN "-" ELSE Head(chars)>>
       \o ReplaceUnderscores(Tail(chars))

\* the text check-api-naming answers; the fixed wording around the quoted
\* strings is held as one element each
NamingVerdict(endpoint) ==
  LET hasUnderscores == Includes(endpoint, <<"_">>)
      hasHyphens == Includes(endpoint, <<"-">>)
  IN IF hasUnderscores
     THEN <<"INCORRECT: ", "\"">> \o endpoint
          \o <<"\"", " uses underscores (fixed text) Correct format: ", "\"">>
          \o ReplaceUnderscores(endpoint) \o <<"\"">>
     ELSE IF hasHyphens \/ ~Includes(endpoint, <<"/">>)
          THEN <<"CORRECT: ", "\"">> \o endpoint
               \o <<"\"", " follows TBC naming conventions (fixed text)">>
          ELSE <<"NOTE: ", "\"">> \o endpoint
               \o <<"\"", " should use kebab-case (fixed text)">>

\* server.tool("check-api-naming")
CallCheckApiNaming ==
  /\ accepting
  /\ \E endpoint \in Endpoints :
       response' = [handler |-> "check-api-naming", id |-> endpoint,
                    threw |-> FALSE, during |-> LoadInProgress,
                    text |-> NamingVerdict(endpoint)]
  /\ UNCHANGED <<guidelines, pc, childPageIds, childIdx, loads, loadResult,
                 log, prevLog, startStore, accepting, mwVars, procVars,
                 logged>>

\* startup, then every handler that reads the store
NextServe ==
  \/ StartServer
  \/ FetchMainPage(MwPages)
  \/ FetchChildPageIds(MwIdPool)
  \/ FetchChildPage(MwPages)
  \/ ListGuidelines
  \/ ReadGuideline
  \/ ReadAllGuidelines
  \/ ReadContext
  \/ InvokePrompt
  \/ CallPing
  \/ CallGetGuidelines
  \/ CallCheckApiNaming
  \/ PostMcp(ReloadBodies)

SpecServe == Init /\ [][NextServe]_vars

\* loads repeated in the running process while the combined view is read
NextReadReload ==
  \/ StartServer
  \/ ReloadGuidelines
  \/ FetchMainPage(Pages)
  \/ FetchChildPageIds(ReloadIdPool)
  \/ FetchChildPage(Pages)
  \/ ReadAllGuidelines

SpecReadReload == Init /\ [][NextReadReload]_vars

(***************************************************************************)
(* Vocabulary of the properties                                            *)
(***************************************************************************)
\* the ids returned by the enumeration of the latest load (log[2])
EnumeratedIds == log[2].ids

EnumSucceeded == Len(log) >= 2 /\ log[2].ok

\* positions in log of the child fetches that failed / succeeded
FailedChildFetches == {k \in 3..Len(log) : ~log[k].ok}
SucceededChildFetches == {k \in 3..Len(log) : log[k].ok}

SucceededChildIds == {log[k].id : k \in SucceededChildFetches}

ChildrenDistinct ==
  /\ \A i, j \in DOMAIN EnumeratedIds :
       EnumeratedIds[i] = EnumeratedIds[j] => i = j
  /\ \A i \in DOMAIN EnumeratedIds : EnumeratedIds[i] # MAIN_PAGE_ID

RecordsUnder(store, id) == {i \in DOMAIN store : store[i].id = id}

MaxOf(S) == CHOOSE m \in S : \A x \in S : x <= m

\* positions in the enumeration at which id occurs
Occurrences(id) == {j \in DOMAIN EnumeratedIds : EnumeratedIds[j] = id}

DuplicatedIds ==
  {EnumeratedIds[j] : j \in {i \in DOMAIN EnumeratedIds :
                               Cardinality(Occurrences(EnumeratedIds[i])) >= 2}}

(***************************************************************************)
(* C1                                                                      *)
(***************************************************************************)
C1_Case ==
  /\ loadResult = "resolved"
  /\ startStore = <<>>
  /\ EnumSucceeded
  /\ Cardinality(FailedChildFetches) = 1

\* C1: a load from an empty store whose main page is fetched and whose
\* enumeration returns N ids of which exactly one fetch fails has fetched
\* every enumerated id in order (those after the failing one included) and
\* holds exactly the main page plus the children whose fetch succeeded; when
\* the N ids are distinct and differ from the main id, that is N records and
\* the failing child has none.
C1_OneBadChildSkipped ==
  C1_Case =>
    /\ Len(log) = 2 + Len(EnumeratedIds)
    /\ \A j \in DOMAIN EnumeratedIds :
         log[2 + j].op = "fetchPageContent" /\ log[2 + j].id = EnumeratedIds[j]
    /\ KeySet(guidelines) = {MAIN_PAGE_ID} \cup SucceededChildIds
    /\ ChildrenDistinct =>
         /\ Len(guidelines) = Len(EnumeratedIds)
         /\ \A k \in FailedChildFetches : ~HasKey(guidelines, log[k].id)

C1_Witness ==
  /\ C1_Case
  /\ ChildrenDistinct
  /\ Len(EnumeratedIds) = 2
  /\ ~log[3].ok
  /\ log[4].ok
  /\ HasKey(guidelines, log[4].id)

(***************************************************************************)
(* C2                                                                      *)
(***************************************************************************)
\* C2: once the main page of a load has been fetched, and so when the load
\* returns, the store holds exactly one record under the main page id,
\* whatever the enumeration and the child fetches do (a child id equal to
\* the main id included).
C2_ExactlyOneRootRecord ==
  (Len(log) >= 1 /\ log[1].ok) =>
    Cardinality(RecordsUnder(guidelines, MAIN_PAGE_ID)) = 1

C2_Witness ==
  /\ loadResult = "resolved"
  /\ log[1].ok
  /\ \E k \in SucceededChildFetches : log[k].id = MAIN_PAGE_ID

(***************************************************************************)
(* C3                                                                      *)
(***************************************************************************)
C3_Case == Len(log) >= 2 /\ log[1].ok /\ ~log[2].ok

\* C3: when the main page is fetched and the enumeration fails, the load
\* resolves, no child fetch is made, and the store holds the main page.
C3_EnumerationFailureNonFatal ==
  C3_Case =>
    /\ loadResult = "resolved"
    /\ pc = "idle"
    /\ Len(log) = 2
    /\ HasKey(guidelines, MAIN_PAGE_ID)

C3_Witness == C3_Case /\ loadResult = "resolved"

(***************************************************************************)
(* C4                                                                      *)
(***************************************************************************)
C4_Case == Len(log) >= 1 /\ ~log[1].ok

\* C4: when the fetch of the main page fails, the load rejects and neither
\* the enumeration nor any child fetch is made.
C4_RootFailureFatal ==
  C4_Case =>
    /\ loadResult = "rejected"
    /\ pc = "idle"
    /\ Len(log) = 1

C4_Witness == C4_Case /\ loadResult = "rejected"

(***************************************************************************)
(* C5                                                                      *)
(***************************************************************************)
\* C5: when the latest load has resolved, the key set of the store is
\* exactly the main page id plus the ids of the children this load fetched
\* successfully (nothing stored by an earlier load remains).
C5_RebuiltFromScratch ==
  loadResult = "resolved" =>
    KeySet(guidelines) = {MAIN_PAGE_ID} \cup SucceededChildIds

(***************************************************************************)
(* C6                                                                      *)
(***************************************************************************)
C6_Case == loads >= 2 /\ loadResult = "resolved" /\ log = prevLog

\* C6: a load that gets from the remote the same answers as the load before
\* it leaves the store with the same key set and, under every key, the same
\* text as the load before it left.
C6_Idempotent ==
  C6_Case =>
    /\ KeySet(guidelines) = KeySet(startStore)
    /\ \A id \in KeySet(guidelines) :
         GetGuideline(guidelines, id).text = GetGuideline(startStore, id).text

C6_Witness == C6_Case /\ SucceededChildFetches # {}

(***************************************************************************)
(* C7                                                                      *)
(***************************************************************************)
\* C7 as stated: for an id enumerated more than once, the record held when
\* the load returns is the one built from the last occurrence of the id, and
\* it is the only record under that id.
C7_LastOccurrenceWins ==
  (loadResult = "resolved" /\ EnumSucceeded) =>
    \A id \in DuplicatedIds :
      LET last == 2 + MaxOf(Occurrences(id))
      IN /\ log[last].ok
         /\ Cardinality(RecordsUnder(guidelines, id)) = 1
         /\ GetGuideline(guidelines, id) = MakeGuideline(id, log[last], ChildFallback)

\* C7 amended: for an id enumerated more than once, if the fetch of at least
\* one occurrence succeeds, the record held when the load returns is the one
\* built from the last occurrence whose fetch succeeded, and it is the only
\* record under that id; if none succeeds, the enumeration writes no record
\* under that id.
C7_LastSuccessfulOccurrenceWins ==
  (loadResult = "resolved" /\ EnumSucceeded) =>
    \A id \in DuplicatedIds :
      LET fetched == {k \in SucceededChildFetches : log[k].id = id}
      IN IF fetched # {}
         THEN /\ Cardinality(RecordsUnder(guidelines, id)) = 1
              /\ GetGuideline(guidelines, id) =
                   MakeGuideline(id, log[MaxOf(fetched)], ChildFallback)
         ELSE IF id = MAIN_PAGE_ID
         THEN GetGuideline(guidelines, id) =
                MakeGuideline(id, log[1], MainFallback)
         ELSE HasKey(guidelines, id) = HasKey(startStore, id)

C7_Witness ==
  /\ loadResult = "resolved"
  /\ EnumSucceeded
  /\ \E id \in DuplicatedIds :
       /\ ~log[2 + MaxOf(Occurrences(id))].ok
       /\ \E k \in SucceededChildFetches : log[k].id = id
       /\ HasKey(guidelines, id)

(***************************************************************************)
(* C8                                                                      *)
(***************************************************************************)
\* the single-record read that produced the response found no record
ReadFoundNoRecord ==
  \/ /\ response.handler = "guideline"
     /\ ~HasKey(guidelines, response.id)
  \/ /\ response.handler = "guideline-decoded"
     /\ \/ ~DecodeURIComponent(response.id).ok
        \/ ~HasKey(guidelines, Trim(DecodeURIComponent(response.id).value))

\* C8: a single-record read of an id that has no record does not throw and
\* answers the explicit "no guideline text found" placeholder.
C8_AbsentIdPlaceholder ==
  ReadFoundNoRecord =>
    /\ ~response.threw
    /\ response.text = NoGuidelineText

(***************************************************************************)
(* C9                                                                      *)
(***************************************************************************)
\* C9: the combined text, split at "### ", has exactly as many sections
\* (pieces that follow a delimiter) as the store has records.
C9_SectionCountIsRecordCount ==
  response.handler = "all-guidelines" =>
    Len(Split(response.text, SectionHeader)) - 1 = Len(guidelines)

(***************************************************************************)
(* C10                                                                     *)
(***************************************************************************)
\* C10: the combined text lists the records in the order in which the load
\* created them: the main page first, then the children as stored.
C10_CombinedInInsertionOrder ==
  response.handler = "all-guidelines" =>
    response.text = SectionsText(guidelines)

(***************************************************************************)
(* C11: the condensed view                                                 *)
(***************************************************************************)
\* the records of a list rendered "{title}: {text}" and joined by " | ",
\* each record once, in the order of the list
RECURSIVE JoinedEntries(_)
JoinedEntries(records) ==
  IF records = <<>> THEN <<>>
  ELSE IF Len(records) = 1
       THEN records[1].title \o <<":", " ">> \o records[1].text
       ELSE records[1].title \o <<":", " ">> \o records[1].text
            \o <<" ", "|", " ">> \o JoinedEntries(Tail(records))

C11_Case == response.handler = "context"

\* C11 as stated: the condensed view read returns exactly the records
\* rendered "{title}: {text}" joined by " | ", and nothing else.
C11_CondensedExactlyJoined ==
  C11_Case => response.text = JoinedEntries(ObjectValues(guidelines))

\* C11 amended: the condensed view read returns the fixed label
\* "TBC Bank Development Standards: " followed by exactly the records
\* rendered "{title}: {text}" joined by " | ", each record once.
C11_CondensedLabelThenJoined ==
  C11_Case =>
    response.text = CondensedLabel \o JoinedEntries(ObjectValues(guidelines))

\* a condensed read of a store holding two records
C11_Witness == C11_Case /\ Len(guidelines) >= 2

(***************************************************************************)
(* C12..C16, C20: the request middleware                                   *)
(***************************************************************************)
MethodName == <<"m", "e", "t", "h", "o", "d">>

ParamsName == <<"p", "a", "r", "a", "m", "s">>

ContextName == <<"c", "o", "n", "t", "e", "x", "t">>

\* a request has been handled by POST /mcp
Exchanged == exchange.outcome # "none"

\* the handler classified the latest request: its body carries a method
\* that is truthy
Classified ==
  /\ Exchanged
  /\ exchange.received.t = "object"
  /\ Truthy(Get(exchange.received, MethodName))

\* the ordered predicate list: category, and the words one of which must
\* occur in the scan string
PredicateList ==
  <<[category |-> "api",
     words |-> {<<"h", "t", "t", "p", "g", "e", "t">>, <<"h", "t", "t", "p",
                                                         "p", "o", "s",
           "t">>, <<"c", "o", "n", "t", "r", "o", "l", "l", "e", "r">>,
                    <<"r", "o", "u", "t", "e">>}],
    [category |-> "logging", words |-> {<<"l", "o", "g", "g", "e", "r">>,
                                          <<"l", "o", "g">>}],
    [category |-> "database", words |-> {<<"d", "b", "c", "o", "n", "t", "e",
                                           "x", "t">>, <<"e", "n", "t", "i",
                                                         "t", "y">>}]>>

\* the predicates a scan string matches
Matching(text) ==
  {i \in DOMAIN PredicateList :
     \E w \in PredicateList[i].words : Includes(text, w)}

\* the category of the first-listed matching predicate, default when none
FirstMatch(text) ==
  IF Matching(text) = {} THEN "default"
  ELSE PredicateList[CHOOSE i \in Matching(text) :
                       \A j \in Matching(text) : i <= j].category

\* the lowercase serialization of the latest request's body
ScanString == ToLowerCase(JsonStringify(exchange.received))

\* C12: classification is first-match-wins over the list API-shape,
\* logging, data-access, default: a classified body gets the category of
\* the first-listed predicate its lowercase serialization matches, the
\* default category when it matches none, and so exactly one category.
C12_FirstMatchWins ==
  Classified => exchange.category = FirstMatch(ScanString)

\* a classified body that matches two predicates
C12_Witness == Classified /\ Cardinality(Matching(ScanString)) >= 2

ReceivedContext == Get(Get(exchange.received, ParamsName), ContextName)

ContextAfter == Get(Get(exchange.after, ParamsName), ContextName)

\* the members the middleware itself writes under context
WrittenNames ==
  {<<"s", "y", "s", "t", "e", "m", "M", "e", "s", "s", "a", "g", "e">>,
     <<"t", "b", "c", "B", "a", "n", "k">>, <<"t", "b", "c", "S", "e", "r",
                                              "v", "e", "r">>, <<"g", "u",
                                                                 "i", "d",
        "e", "l", "i", "n", "e", "s">>,
   <<"i", "n", "s", "t", "r", "u", "c", "t", "i", "o", "n">>, <<"w", "o",
                                                                "r", "k",
         "s", "p", "a", "c", "e", "A", "g", "n", "o", "s", "t", "i", "c">>}

C14_Case == Classified /\ IsObject(ReceivedContext)

\* C14: injection merges into params.context and never replaces it: when a
\* classified request arrives with a context object, every member of that
\* context is still a member afterwards, and a member the middleware does
\* not write keeps its value.
C14_ContextMerged ==
  C14_Case =>
    \A i \in DOMAIN ReceivedContext.f :
      LET key == ReceivedContext.f[i].k
      IN /\ HasMember(ContextAfter, key)
         /\ key \notin WrittenNames
              => Get(ContextAfter, key) = ReceivedContext.f[i].v

\* a request with context {foo: 1, ...} was injected and forwarded
C14_Witness ==
  /\ C14_Case
  /\ exchange.outcome = "forwarded"
  /\ HasMember(ReceivedContext, <<"f", "o", "o">>)
  /\ HasMember(ContextAfter, <<"s", "y", "s", "t", "e", "m", "M", "e", "s",
                               "s", "a", "g", "e">>)
  /\ Get(ContextAfter, <<"s", "y", "s", "t", "e", "m", "M", "e", "s", "s",
                         "a", "g", "e">>) # Get(ReceivedContext, <<"s", "y",
                                                                   "s", "t",
        "e", "m", "M", "e", "s", "s", "a", "g", "e">>)

\* C15: the middleware is fail-open: whatever the body, the handler
\* reaches the dispatcher call that forwards the request.
C15_FailOpen ==
  (Exchanged /\ exchange.received.t # "unparseable")
    => exchange.outcome = "forwarded"

\* a body is malformed: absent, unparseable, or without a method
Malformed(body) ==
  \/ body.t \in {"undefined", "unparseable"}
  \/ body.t = "object" /\ ~HasMember(body, MethodName)

\* C16: a malformed body is left exactly as received and is still
\* forwarded to the dispatcher.
C16_MalformedForwardedUnchanged ==
  (Exchanged /\ Malformed(exchange.received))
    => /\ exchange.outcome = "forwarded"
       /\ exchange.after = exchange.received

(***************************************************************************)
(* C20: the excerpt written to params.context.systemMessage                *)
(***************************************************************************)
\* the fixed preamble of a category
Preamble(category) ==
  TbcScanner \o <<"\n", "\n">> \o ScannerBlock(category) \o <<"\n", "\n">>

\* a member the handler can write under: absent, falsy, or an object
Writable(v) == ~Truthy(v) \/ IsObject(v)

\* the latest request was classified and the handler wrote systemMessage:
\* params and params.context can be written under
C20_Case ==
  /\ Classified
  /\ Writable(Get(exchange.received, ParamsName))
  /\ Writable(ReceivedContext)

\* the characters written to params.context.systemMessage
WrittenMessage == Get(ContextAfter, <<"s", "y", "s", "t", "e", "m", "M", "e",
                                      "s", "s", "a", "g", "e">>).s

\* a text holds the section "### {title}\n{text}" of every record of the store
HoldsEverySection(chars) ==
  \A i \in DOMAIN guidelines :
    Includes(chars, SectionHeader \o guidelines[i].title \o <<"\n">>
                    \o guidelines[i].text)

StartupLoadCompleted == loads >= 1 /\ loadResult = "resolved"

\* C17: no request is accepted before the startup load has completed, and
\* after a failed load the server never accepts requests.
C17_NoRequestBeforeLoad ==
  /\ (accepting \/ Exchanged) => StartupLoadCompleted
  /\ loadResult = "rejected" => ~accepting

\* a request handled after the startup load completed
C17_Witness == Exchanged /\ StartupLoadCompleted /\ Len(guidelines) >= 1

(***************************************************************************)
(* C18: fatal startup failure                                              *)
(***************************************************************************)
\* the root fetch of the startup load failed, or a configuration value is
\* missing
RootFetchFailed == loads = 1 /\ loadResult = "rejected"

FatalStartupFailure == ~configOk \/ RootFetchFailed

\* the cause of the failure has been written to stderr
CauseLogged ==
  /\ ~configOk => "Missing required environment variables" \in logged
  /\ RootFetchFailed =>
       "Failed to load guidelines from Confluence" \in logged

\* C18: a fatal startup failure always ends with the process terminated
\* with a non-zero exit status, the cause logged before it terminates.
C18_FatalStartupExitsNonZero ==
  /\ [](FatalStartupFailure => <>(~Running))
  /\ []((FatalStartupFailure /\ ~Running) => (exitCode # 0 /\ CauseLogged))

\* the process ended with status 1 after the root fetch failed
C18_Witness ==
  /\ RootFetchFailed
  /\ exitCode = 1
  /\ "Failed to start server" \in logged

(***************************************************************************)
(* C19: traversal depth                                                    *)
(***************************************************************************)
\* an id is the root or one the enumeration of the root returned
RootOrEnumerated(id) ==
  \/ id = MAIN_PAGE_ID
  \/ /\ EnumSucceeded
     /\ \E j \in DOMAIN EnumeratedIds : EnumeratedIds[j] = id

\* C19: traversal is root plus direct children: child enumeration is asked
\* for the root id only, and every page fetched or stored is the root or an
\* id that enumeration returned.
C19_RootAndDirectChildrenOnly ==
  /\ \A k \in DOMAIN log :
       log[k].op = "fetchChildPageIds" => log[k].id = MAIN_PAGE_ID
  /\ \A k \in DOMAIN log :
       log[k].op = "fetchPageContent" => RootOrEnumerated(log[k].id)
  /\ \A i \in DOMAIN guidelines : RootOrEnumerated(guidelines[i].id)

\* a load that returned after fetching and storing two children
C19_Witness ==
  /\ loadResult = "resolved"
  /\ Cardinality(SucceededChildFetches) >= 2
  /\ Len(guidelines) >= 2

(***************************************************************************)
(* C21: the enforcement flags                                              *)
(***************************************************************************)
\* a method value names a lifecycle method: the string "initialize", or a
\* string containing one of the five words
LifecycleMethod(method) ==
  /\ method.t = "string"
  /\ \/ method.s = <<"i", "n", "i", "t", "i", "a", "l", "i", "z", "e">>
     \/ Includes(method.s, <<"c", "o", "m", "p", "l", "e", "t", "i", "o",
                             "n">>)
     \/ Includes(method.s, <<"h", "o", "v", "e", "r">>)
     \/ Includes(method.s, <<"c", "o", "d", "e", "A", "c", "t", "i", "o",
                             "n">>)
     \/ Includes(method.s, <<"d", "i", "a", "g", "n", "o", "s", "t", "i",
                             "c">>)
     \/ Includes(method.s, <<"s", "y", "m", "b", "o", "l">>)

FlagNames ==
  {<<"t", "b", "c", "B", "a", "n", "k">>, <<"t", "b", "c", "S", "e", "r",
                                            "v", "e", "r">>, <<"i", "n", "s",
                                                               "t", "r", "u",
        "c", "t", "i", "o", "n">>, <<"w", "o", "r", "k", "s", "p", "a", "c",
                                     "e", "A", "g", "n", "o", "s", "t", "i",
        "c">>}

\* the four flags as the middleware sets them
FlagsSet(context) ==
  /\ Get(context, <<"t", "b", "c", "B", "a", "n", "k">>) = True
  /\ Get(context, <<"t", "b", "c", "S", "e", "r", "v", "e", "r">>)
       = Str(<<"h", "t", "t", "p", ":", "/", "/", "l", "o", "c", "a", "l",
               "h", "o", "s", "t", ":", "8", "0", "8", "0">>)
  /\ Get(context, <<"i", "n", "s", "t", "r", "u", "c", "t", "i", "o", "n">>)
       = Str(<<"ENFORCE TBC Bank coding standards in all responses - any workspace">>)
  /\ Get(context, <<"w", "o", "r", "k", "s", "p", "a", "c", "e", "A", "g",
                    "n", "o", "s", "t", "i", "c">>) = True

CapabilitiesName == <<"c", "a", "p", "a", "b", "i", "l", "i", "t", "i", "e",
                      "s">>

ReceivedCapabilities ==
  Get(Get(exchange.received, ParamsName), CapabilitiesName)

CapabilitiesAfter == Get(Get(exchange.after, ParamsName), CapabilitiesName)

\* the latest request was classified, injected and forwarded
Forwarded == C20_Case /\ exchange.outcome = "forwarded"

WritableParams(method) ==
  IF method = Str(<<"i", "n", "i", "t", "i", "a", "l", "i", "z", "e">>)
  THEN {ContextName, CapabilitiesName}
  ELSE {ContextName}

\* C23: a request handed to the dispatcher has the method, the id and every
\* member of the body other than params as received, and every member of
\* params other than context (and capabilities for "initialize") as
\* received.
C23_ForwardedUnchangedInMethodAndIdentity ==
  exchange.outcome = "forwarded" =>
    /\ \A i \in DOMAIN exchange.received.f :
         exchange.received.f[i].k # ParamsName =>
           Get(exchange.after, exchange.received.f[i].k)
             = exchange.received.f[i].v
    /\ LET params == Get(exchange.received, ParamsName)
       IN \A i \in DOMAIN params.f :
            params.f[i].k \notin
                WritableParams(Get(exchange.received, MethodName)) =>
              Get(Get(exchange.after, ParamsName), params.f[i].k)
                = params.f[i].v

\* a forwarded request that arrived with an id and with params the
\* middleware does not write
C23_Witness ==
  /\ Forwarded
  /\ HasMember(exchange.received, <<"i", "d">>)
  /\ Get(exchange.after, <<"i", "d">>) = Num(<<"1">>)
  /\ HasMember(ContextAfter, <<"s", "y", "s", "t", "e", "m", "M", "e", "s",
                               "s", "a", "g", "e">>)

(***************************************************************************)
(* C30: injected members win over the client's                             *)
(***************************************************************************)
\* C30: after injection params.context.systemMessage is the message the
\* middleware generates, whatever systemMessage the client sent, and for a
\* lifecycle method tbcBank, tbcServer, guidelines, instruction and
\* workspaceAgnostic are the values the middleware writes, whatever the
\* client sent under those names.
C30_InjectedFieldsWin ==
  C20_Case =>
    /\ Get(ContextAfter, <<"s", "y", "s", "t", "e", "m", "M", "e", "s", "s",
                           "a", "g", "e">>)
         = Str(MessageHeader \o Preamble(FirstMatch(ScanString))
               \o CombinedText(guidelines) \o MessageTrailer)
    /\ LifecycleMethod(Get(exchange.received, MethodName)) =>
         /\ FlagsSet(ContextAfter)
         /\ Get(ContextAfter, <<"g", "u", "i", "d", "e", "l", "i", "n", "e",
                                "s">>)
              = Str(Preamble(FirstMatch(ScanString))
                    \o CombinedText(guidelines))

\* a lifecycle request that came with its own systemMessage and tbcBank
C30_Witness ==
  /\ Forwarded
  /\ LifecycleMethod(Get(exchange.received, MethodName))
  /\ Get(ReceivedContext, <<"s", "y", "s", "t", "e", "m", "M", "e", "s", "s",
                            "a", "g", "e">>) = Str(<<"o", "l", "d">>)
  /\ Get(ReceivedContext, <<"t", "b", "c", "B", "a", "n", "k">>) = Str(<<"n",
                                                                         "o">>)
  /\ Get(ContextAfter, <<"t", "b", "c", "B", "a", "n", "k">>) = True

(***************************************************************************)
(* C24: load is the sole writer of the store                               *)
(***************************************************************************)
\* a step of a listing, read, prompt, tool or middleware handler
HandlerStep == response' # response \/ exchange' # exchange

\* C24: no resource listing, resource read, prompt, tool call or
\* middleware injection changes the store: across every such step the
\* store's keys and records are what they were.
C24_HandlersLeaveStore == [][HandlerStep => guidelines' = guidelines]_vars

\* a store of two records after a record was read and a request injected
C24_Witness ==
  /\ response.handler = "guideline"
  /\ HasKey(guidelines, response.id)
  /\ Classified
  /\ Len(guidelines) >= 2

(***************************************************************************)
(* C25: what a reader sees while a load is in progress                     *)
(***************************************************************************)
\* the latest combined read ran during the load that has now returned
ReadDuringCompletedLoad ==
  /\ response.handler = "all-guidelines"
  /\ response.during = loads
  /\ pc = "idle"
  /\ loadResult = "resolved"

\* C25: a read that runs while a load is in progress shows the complete
\* store of before that load or the complete store of after it, never a
\* store holding part of what the load writes.
C25_ReaderSeesBeforeOrAfter ==
  ReadDuringCompletedLoad =>
    \/ response.text = CombinedText(startStore)
    \/ response.text = CombinedText(guidelines)

(***************************************************************************)
(* C27: check-api-naming                                                   *)
(***************************************************************************)
Has(chars, c) == \E i \in DOMAIN chars : chars[i] = c

\* the verdict and the quoted strings of an answer of check-api-naming
VerdictOf(text) == text[1]

\* the text between the last two quotes
LastQuoted(text) ==
  LET quotes == {i \in DOMAIN text : text[i] = "\""}
      close == MaxOf(quotes)
      open == MaxOf(quotes \ {close})
  IN SubSeq(text, open + 1, close - 1)

C27_Case == response.handler = "check-api-naming"

\* C27: every endpoint gets exactly one verdict: INCORRECT exactly when it
\* contains an underscore, with the endpoint with every underscore turned
\* into a hyphen as the correction; CORRECT exactly when it has no
\* underscore and contains a hyphen or no slash; NOTE otherwise.
C27_ThreeVerdicts ==
  C27_Case =>
    LET endpoint == response.id
        verdict == VerdictOf(response.text)
    IN /\ verdict \in {"INCORRECT: ", "CORRECT: ", "NOTE: "}
       /\ verdict = "INCORRECT: " <=> Has(endpoint, "_")
       /\ verdict = "CORRECT: " <=>
            (~Has(endpoint, "_") /\ (Has(endpoint, "-") \/ ~Has(endpoint,
                  "/")))
       /\ verdict = "INCORRECT: " =>
            LastQuoted(response.text) =
              [i \in DOMAIN endpoint |->
                 IF endpoint[i] = "_" THEN "-" ELSE endpoint[i]]

\* an endpoint with two underscores and a hyphen judged INCORRECT
C27_Witness ==
  /\ C27_Case
  /\ Cardinality({i \in DOMAIN response.id : response.id[i] = "_"}) >= 2
  /\ Has(response.id, "-")
  /\ VerdictOf(response.text) = "INCORRECT: "

(***************************************************************************)
(* C26  Every record of the store carries its link: the record's url is    *)
(* the base URL followed by "/pages/" and the record's page id, and the    *)
(* record's text ends with a line break, "URL: " and that url.             *)
(***************************************************************************)
LinkOf(id) == BASE_URL \o <<"/", "p", "a", "g", "e", "s", "/">> \o id

LinkLine(url) == <<"\n">> \o <<"U", "R", "L", ":", " ">> \o url

EndsWith(text, tail) ==
  /\ Len(text) >= Len(tail)
  /\ SubSeq(text, Len(text) - Len(tail) + 1, Len(text)) = tail

C26_TextEndsWithPageLink ==
  \A k \in DOMAIN guidelines :
    /\ guidelines[k].url = LinkOf(guidelines[k].id)
    /\ EndsWith(guidelines[k].text, LinkLine(guidelines[k].url))

\* a reload has rewritten the root and stored a child beside it
C26_Witness ==
  /\ loads >= 2
  /\ loadResult = "resolved"
  /\ Len(guidelines) >= 2
  /\ \E k \in DOMAIN guidelines : guidelines[k].id # MAIN_PAGE_ID

(***************************************************************************)
(* C29  A load whose root fetch fails writes nothing: when the load has    *)
(* rejected, the store holds the same keys, in the same order, with the    *)
(* same records as when the load began, the records of an earlier          *)
(* successful load included.                                               *)
(***************************************************************************)
LoadRejected == pc = "idle" /\ loadResult = "rejected"

C29_RejectedLoadWritesNothing ==
  LoadRejected =>
    /\ Len(log) = 1 /\ ~log[1].ok
    /\ KeySet(guidelines) = KeySet(startStore)
    /\ guidelines = startStore

\* a reload rejects over the records an earlier load has left
C29_Witness ==
  /\ LoadRejected
  /\ loads >= 2
  /\ Len(guidelines) >= 2

(***************************************************************************)
(* C28  If every remote call settles, a load that has begun eventually     *)
(* resolves or rejects.  It makes exactly one root fetch, at most one      *)
(* enumeration, and one child fetch per entry of the enumerated list, in   *)
(* list order, none of them repeated; while it is pending it is waiting    *)
(* for a remote call.  The statement with at most one fetch per enumerated *)
(* child id is kept beside it.                                             *)
(***************************************************************************)
LoadPending == loadResult = "pending"

LoadCompleted == loadResult \in {"resolved", "rejected"}

AwaitingRemoteCall == pc \in {"root", "enum", "child"}

RootFetches ==
  {k \in DOMAIN log : k = 1 /\ log[k].op = "fetchPageContent"
                            /\ log[k].id = MAIN_PAGE_ID}

Enumerations == {k \in DOMAIN log : log[k].op = "fetchChildPageIds"}

ChildFetches == {k \in DOMAIN log : k >= 2 /\ log[k].op = "fetchPageContent"}

ChildFetchesOf(id) == {k \in ChildFetches : log[k].id = id}

\* what every load does, whatever the list holds
CallsOfOneLoad ==
  /\ Len(log) >= 1 => RootFetches = {1}
  /\ Cardinality(Enumerations) <= 1
  /\ Enumerations \subseteq {2}
  /\ LoadPending <=> AwaitingRemoteCall
  /\ LoadPending /\ pc = "root" => Len(log) = 0
  /\ LoadPending /\ pc = "enum" => Len(log) = 1
  /\ LoadCompleted => Cardinality(RootFetches) = 1

OneFetchPerListEntry ==
  /\ Cardinality(ChildFetches) <= Len(childPageIds)
  /\ \A k \in ChildFetches : log[k].id = childPageIds[k - 2]
  /\ loadResult = "resolved" => Cardinality(ChildFetches) = Len(childPageIds)

ListedIds == {childPageIds[j] : j \in DOMAIN childPageIds}

OneFetchPerChildId ==
  \A id \in ListedIds : Cardinality(ChildFetchesOf(id)) <= 1

C28_OneFetchPerChildId ==
  /\ [](CallsOfOneLoad /\ OneFetchPerChildId)
  /\ LoadPending ~> LoadCompleted

C28_OneFetchPerListEntry ==
  /\ [](CallsOfOneLoad /\ OneFetchPerListEntry)
  /\ LoadPending ~> LoadCompleted

\* a load has resolved after fetching twice the id its enumeration lists twice
C28_Witness ==
  /\ loadResult = "resolved"
  /\ Len(childPageIds) = 2
  /\ childPageIds[1] = childPageIds[2]
  /\ Cardinality(ChildFetchesOf(childPageIds[1])) = 2
  /\ Len(log) = 4

====
